---- MODULE Spec2Model ----
(***************************************************************************)
(* A model of cgminer_.py, a munin plugin that asks a cgminer daemon for   *)
(* its devices over TCP and renders them as munin "config" or "fetch"      *)
(* text.  Three parts of the program are modelled:                         *)
(*   - the classifier  Device(data)            (ClassifySpec),             *)
(*   - the transport   CGMiner.__call__        (TransportSpec), step by    *)
(*     step, one action per statement that can block or raise,             *)
(*   - the program     __main__/configure/fetch (Spec), where one call of  *)
(*     CGMiner.devs is one action.                                         *)
(***************************************************************************)
EXTENDS Integers, Sequences, FiniteSets, TLC

VARIABLES
    \* ---- the classifier, Device(data)
    cpc,        \* "input" -> "made" -> "read" ("off" when not modelled)
    record,     \* the device record handed to Device(...)
    made,       \* what Device(record) produced: a view or an exception
    identRead,  \* the value of the view's ident property, once read
    \* ---- the transport, CGMiner.__call__
    tpc,        \* position in __call__ ("off" when not modelled)
    sock,       \* "none" | "open" | "closed"
    wire,       \* the bytes the peer writes for this request, in full
    delivered,  \* how many of them have arrived at the client's socket
    peerClosed, \* the peer has closed its side
    cmd,        \* the command envelope built at lines 74-77
    request,    \* what was written to the socket
    buff,       \* local buff
    chunk,      \* local chunk
    consumed,   \* how many bytes recv has handed out
    recvs,      \* number of recv calls that returned
    ret,        \* the call's outcome: return value or exception
    \* ---- the program, __main__
    pc,         \* position in __main__ / configure / fetch ("off" when
                \* not modelled)
    argv,       \* sys.argv
    data,       \* the function __main__ selected
    daemon,     \* the bytes the daemon answers a request with, right now
    changes,    \* how often the daemon's answer changed between two requests
    devs,       \* local devs of configure / fetch
    polls,      \* each call of cgminer.devs so far: the answer it read,
                \* how the socket calls went, the exception raised and
                \* the number of views returned
    lines,      \* local lines of configure / fetch
    stdout,     \* the lines printed
    exc,        \* the exception that ended the run, or "none"
    connects,   \* TCP connections opened by this invocation
    commands    \* commands sent by this invocation

classVars == <<cpc, record, made, identRead>>
transVars == <<tpc, sock, wire, delivered, peerClosed, cmd, request, buff,
               chunk, consumed, recvs, ret>>
progVars  == <<pc, argv, data, daemon, changes, devs, polls, lines, stdout,
               exc, connects, commands>>
vars == <<classVars, transVars, progVars>>

----------------------------------------------------------------------------
(* Bounds of the model. *)

\* device idents range over 0..MaxIdent
MaxIdent == 1
\* a device record of the classifier's inputs holds at most MaxTags tag keys
MaxTags == 2
\* the daemon reports at most MaxDevs devices
MaxDevs == 2
\* the daemon's answer changes at most MaxChanges times during one run,
\* each time between two requests
MaxChanges == 1
\* the peer pads its response with at most MaxPad null bytes
MaxPad == 1

----------------------------------------------------------------------------
(* Device records.  A record is the sequence of its <<key, value>> pairs   *)
(* in the order iteration over the dict yields them.                       *)

\* Device.REGISTRY after the class statements of GPU and PGA have run.
REGISTRY == {"GPU", "PGA"}

\* The keys Device.__init__ reads, in the order it reads them.
StatFields == <<"Accepted", "Enabled", "Total MH", "Rejected",
                "Temperature", "Utility", "Device Elapsed">>

Range(s) == {s[i] : i \in 1..Len(s)}

SetMin(S) == CHOOSE m \in S : \A n \in S : m <= n

HasKey(d, k) == \E i \in 1..Len(d) : d[i][1] = k

\* d[k], for a key that is present
Get(d, k) == d[CHOOSE i \in 1..Len(d) : d[i][1] = k][2]

NoView == [cls |-> "None"]

\* Device.__init__(self, data): the first missing key raises KeyError.
DeviceInit(cls, d) ==
    IF \E i \in 1..Len(StatFields) : ~HasKey(d, StatFields[i])
    THEN [exc |-> "KeyError", view |-> NoView]
    ELSE [exc |-> "none",
          view |-> [cls         |-> cls,
                    data_       |-> d,
                    accepted    |-> Get(d, "Accepted"),
                    enabled     |-> (Get(d, "Enabled") = "Y"),
                    mh          |-> Get(d, "Total MH"),
                    rejected    |-> Get(d, "Rejected"),
                    temperature |-> Get(d, "Temperature"),
                    utility     |-> Get(d, "Utility"),
                    uptime      |-> Get(d, "Device Elapsed")]]

SetMax(S) == CHOOSE m \in S : \A n \in S : n <= m

\* NewCls without the break: the loop runs on, the last registered key wins
NewClsLast(d) ==
    LET hits == {i \in 1..Len(d) : d[i][1] \in REGISTRY}
    IN  IF hits = {} THEN "None" ELSE d[SetMax(hits)][1]

\* NewCls looking at the record's first key alone
NewClsFirstKey(d) ==
    IF d # <<>> /\ d[1][1] \in REGISTRY THEN d[1][1] ELSE "None"

\* The class Device.__new__ selects: that of the first key, in the record's
\* iteration order, that the registry knows; "None" when there is none.
NewCls(d) ==
    LET hits == {i \in 1..Len(d) : d[i][1] \in REGISTRY}
    IN  IF hits = {} THEN "None" ELSE d[SetMin(hits)][1]

\* Device(data): __new__ dispatches to the registered subclass, whose
\* __init__ then reads the fields.
Device(d) ==
    IF NewCls(d) = "None"
    THEN [exc |-> "TypeError", view |-> NoView]
    ELSE DeviceInit(NewCls(d), d)

\* The ident property: self._data[self.__class__.__name__]
ident(v) == Get(v.data_, v.cls)

----------------------------------------------------------------------------
(* The classifier's inputs. *)

TagKeys == {"GPU", "PGA", "ASC"}

Distinct(s) == \A i, j \in 1..Len(s) : i # j => s[i][1] # s[j][1]

\* the tag-key pairs of a record: at most MaxTags distinct tag keys, each
\* with an ident
TagParts ==
    {s \in UNION {[1..n -> TagKeys \X (0..MaxIdent)] : n \in 0..MaxTags} :
        Distinct(s)}

StatValue(f) ==
    CASE f = "Accepted"       -> 10
      [] f = "Enabled"        -> "Y"
      [] f = "Total MH"       -> 5502
      [] f = "Rejected"       -> 1
      [] f = "Temperature"    -> 650
      [] f = "Utility"        -> 123
      [] f = "Device Elapsed" -> 3600

AllStats == [i \in 1..Len(StatFields) |-> <<StatFields[i], StatValue(StatFields[i])>>]

\* s without its i-th element
Without(s, i) == SubSeq(s, 1, i - 1) \o SubSeq(s, i + 1, Len(s))

\* all stat fields, or all but one
StatParts == {AllStats} \cup {Without(AllStats, i) : i \in 1..Len(AllStats)}

\* tag keys before the stat fields, after them, or around them
RecordInputs ==
    UNION {{t \o s, s \o t} \cup
           {IF t = <<>> THEN s ELSE <<Head(t)>> \o s \o Tail(t)} :
               <<t, s>> \in TagParts \X StatParts}

----------------------------------------------------------------------------
(* The classifier applied to one record. *)

NoMade == [exc |-> "unset", view |-> NoView]

ClassInit ==
    /\ cpc = "input"
    /\ made = NoMade
    /\ identRead = -1

Classify ==
    /\ cpc = "input"
    /\ made' = Device(record)
    /\ cpc' = "made"
    /\ UNCHANGED <<record, identRead>>
    /\ UNCHANGED <<transVars, progVars>>

ReadIdent ==
    /\ cpc = "made"
    /\ made.exc = "none"
    /\ identRead' = ident(made.view)
    /\ cpc' = "read"
    /\ UNCHANGED <<record, made>>
    /\ UNCHANGED <<transVars, progVars>>

----------------------------------------------------------------------------
(* The wire.  A response is a sequence of bytes; the model keeps JSON text  *)
(* at the grain of its tokens, one number per token:                       *)
(*    0  the null byte \x00          1  {          2  }                    *)
(*    3  "DEVS": [                   4  ]                                  *)
(*    9 + i  the text of device record number i of DeviceTable             *)

NUL == 0

\* the records the daemon reports
DeviceTable ==
    << <<<<"GPU", 0>>>> \o AllStats,
       AllStats \o <<<<"PGA", 1>>>>,
       <<<<"ASC", 0>>>> \o AllStats,
       <<<<"GPU", 1>>>> \o Without(AllStats, 5) >>

RecToken(i) == 9 + i

IsRecToken(b) == b - 9 \in 1..Len(DeviceTable)

\* the text of {"DEVS": [records...]}
DevsText(idx) == <<1, 3>> \o [i \in 1..Len(idx) |-> RecToken(idx[i])] \o <<4, 2>>

\* the text of a response with no DEVS member
NoDevsText == <<1, 2>>

\* StripNulls taking off the padding at the end only
RECURSIVE StripTrailingNulls(_)
StripTrailingNulls(b) ==
    IF b = <<>> THEN <<>>
    ELSE IF b[Len(b)] = NUL THEN StripTrailingNulls([i \in 1..(Len(b) - 1) |-> b[i]])
         ELSE b

\* buff.replace('\x00', '')
RECURSIVE StripNulls(_)
StripNulls(b) ==
    IF b = <<>> THEN <<>>
    ELSE IF Head(b) = NUL THEN StripNulls(Tail(b))
         ELSE <<Head(b)>> \o StripNulls(Tail(b))

\* text is one complete JSON document
IsDoc(t) ==
    /\ Len(t) >= 2
    /\ t[1] = 1
    /\ t[Len(t)] = 2
    /\ \/ Len(t) = 2
       \/ /\ Len(t) >= 4
          /\ t[2] = 3
          /\ t[Len(t) - 1] = 4
          /\ \A i \in 3..(Len(t) - 2) : IsRecToken(t[i])

NoValue == [hasDevs |-> FALSE, devs |-> <<>>]

\* json.loads(text): the parsed value, or ValueError
JsonLoads(t) ==
    IF ~IsDoc(t) THEN [exc |-> "ValueError", value |-> NoValue]
    ELSE IF Len(t) = 2 THEN [exc |-> "none", value |-> NoValue]
    ELSE [exc |-> "none",
          value |-> [hasDevs |-> TRUE,
                     devs |-> [i \in 1..(Len(t) - 4) |-> DeviceTable[t[i + 2] - 9]]]]

\* json.dumps(cmd): the text of the envelope, token by token
Dumps(c) ==
    IF "parameter" \in DOMAIN c
    THEN <<"{", "command", c.command, "parameter", c.parameter, "}">>
    ELSE <<"{", "command", c.command, "}">>

\* the envelope of lines 74-77
Envelope(command, parameter) ==
    IF parameter = "None" THEN [command |-> command]
    ELSE [command |-> command, parameter |-> parameter]

\* the size handed to recv
RecvSize == 4096

Min(a, b) == IF a < b THEN a ELSE b

----------------------------------------------------------------------------
(* The responses a peer may write in the transport's model: every prefix   *)
(* of a well-formed text (the whole of it, or the text cut short), with up *)
(* to MaxPad null bytes put anywhere into it.                              *)

Prefixes(t) == {SubSeq(t, 1, n) : n \in 0..Len(t)}

WholeTexts ==
    {NoDevsText} \cup {DevsText([i \in 1..n |-> 1]) : n \in 0..MaxDevs}

WireTexts == UNION {Prefixes(t) : t \in WholeTexts}

\* t with a null byte put in after its first n bytes
PutNul(t, n) == SubSeq(t, 1, n) \o <<NUL>> \o SubSeq(t, n + 1, Len(t))

RECURSIVE Padded(_, _)
Padded(T, k) ==
    IF k = 0 THEN T
    ELSE T \cup Padded(UNION {{PutNul(t, n) : n \in 0..Len(t)} : t \in T}, k - 1)

TransportWires == Padded(WireTexts, MaxPad)

----------------------------------------------------------------------------
(* CGMiner.__call__, statement by statement. *)

NoRet == [exc |-> "unset", value |-> NoValue]

TransInit ==
    /\ tpc = "entry"
    /\ sock = "none"
    /\ delivered = 0
    /\ peerClosed = FALSE
    /\ cmd = [command |-> "unset"]
    /\ request = <<>>
    /\ buff = <<>>
    /\ chunk = <<>>
    /\ consumed = 0
    /\ recvs = 0
    /\ ret = NoRet

\* an exception leaves __call__: nothing on that path closes the socket
Raise(e) ==
    /\ tpc' = "raised"
    /\ ret' = [exc |-> e, value |-> NoValue]

\* lines 74-79: the envelope, then socket.socket(...)
Open ==
    /\ tpc = "entry"
    /\ \E parameter \in {"None", "0"} : cmd' = Envelope("devs", parameter)
    /\ sock' = "open"
    /\ tpc' = "connect"
    /\ UNCHANGED <<wire, delivered, peerClosed, request, buff, chunk,
                   consumed, recvs, ret>>
    /\ UNCHANGED <<classVars, progVars>>

\* line 80: sock.connect(...)
Connect ==
    /\ tpc = "connect"
    /\ tpc' = "send"
    /\ UNCHANGED <<sock, wire, delivered, peerClosed, cmd, request, buff,
                   chunk, consumed, recvs, ret>>
    /\ UNCHANGED <<classVars, progVars>>

ConnectFails ==
    /\ tpc = "connect"
    /\ Raise("IOError")
    /\ UNCHANGED <<sock, wire, delivered, peerClosed, cmd, request, buff,
                   chunk, consumed, recvs>>
    /\ UNCHANGED <<classVars, progVars>>

\* line 81: sock.send(json.dumps(cmd))
Send ==
    /\ tpc = "send"
    /\ request' = Dumps(cmd)
    /\ tpc' = "recv"
    /\ UNCHANGED <<sock, wire, delivered, peerClosed, cmd, buff, chunk,
                   consumed, recvs, ret>>
    /\ UNCHANGED <<classVars, progVars>>

SendFails ==
    /\ tpc = "send"
    /\ Raise("IOError")
    /\ UNCHANGED <<sock, wire, delivered, peerClosed, cmd, request, buff,
                   chunk, consumed, recvs>>
    /\ UNCHANGED <<classVars, progVars>>

\* the peer writes some more of its response
PeerSend ==
    /\ tpc \in {"recv", "test"}
    /\ ~peerClosed
    /\ \E n \in (delivered + 1)..Len(wire) : delivered' = n
    /\ UNCHANGED <<tpc, sock, wire, peerClosed, cmd, request, buff, chunk,
                   consumed, recvs, ret>>
    /\ UNCHANGED <<classVars, progVars>>

\* the peer has written all of it and closes the connection
PeerClose ==
    /\ tpc \in {"recv", "test"}
    /\ ~peerClosed
    /\ delivered = Len(wire)
    /\ peerClosed' = TRUE
    /\ UNCHANGED <<tpc, sock, wire, delivered, cmd, request, buff, chunk,
                   consumed, recvs, ret>>
    /\ UNCHANGED <<classVars, progVars>>

\* what recv(size) may return: some of the bytes that have arrived, at
\* least one and at most size; nothing once the peer has closed and all
\* has been read; it blocks otherwise
RecvResults(size) ==
    IF consumed < delivered
    THEN {SubSeq(wire, consumed + 1, consumed + n) :
              n \in 1..Min(size, delivered - consumed)}
    ELSE IF peerClosed THEN {<<>>} ELSE {}

\* lines 84 and 88: chunk = sock.recv(4096)
Recv ==
    /\ tpc = "recv"
    /\ \E c \in RecvResults(RecvSize) :
          /\ chunk' = c
          /\ consumed' = consumed + Len(c)
    /\ recvs' = recvs + 1
    /\ tpc' = "test"
    /\ UNCHANGED <<sock, wire, delivered, peerClosed, cmd, request, buff, ret>>
    /\ UNCHANGED <<classVars, progVars>>

RecvFails ==
    /\ tpc = "recv"
    /\ Raise("IOError")
    /\ UNCHANGED <<sock, wire, delivered, peerClosed, cmd, request, buff,
                   chunk, consumed, recvs>>
    /\ UNCHANGED <<classVars, progVars>>

\* the buffer after line 87
Appended(b, c) == b \o c

\* lines 86-87: the loop's test holds, buff = buff + chunk
LoopBody ==
    /\ tpc = "test"
    /\ Len(chunk) # 0
    /\ buff' = Appended(buff, chunk)
    /\ tpc' = "recv"
    /\ UNCHANGED <<sock, wire, delivered, peerClosed, cmd, request, chunk,
                   consumed, recvs, ret>>
    /\ UNCHANGED <<classVars, progVars>>

\* lines 86, 90: the loop's test fails, sock.close()
LoopExit ==
    /\ tpc = "test"
    /\ Len(chunk) = 0
    /\ sock' = "closed"
    /\ tpc' = "parse"
    /\ UNCHANGED <<wire, delivered, peerClosed, cmd, request, buff, chunk,
                   consumed, recvs, ret>>
    /\ UNCHANGED <<classVars, progVars>>

\* lines 91-92: strip the nulls, parse
Parse ==
    /\ tpc = "parse"
    /\ buff' = StripNulls(buff)
    /\ ret' = JsonLoads(buff')
    /\ tpc' = IF ret'.exc = "none" THEN "returned" ELSE "raised"
    /\ UNCHANGED <<sock, wire, delivered, peerClosed, cmd, request, chunk,
                   consumed, recvs>>
    /\ UNCHANGED <<classVars, progVars>>

\* the steps of the client, and those of the peer
ClientStep ==
    \/ Open
    \/ Connect
    \/ ConnectFails
    \/ Send
    \/ SendFails
    \/ Recv
    \/ RecvFails
    \/ LoopBody
    \/ LoopExit
    \/ Parse

PeerStep ==
    \/ PeerSend
    \/ PeerClose

----------------------------------------------------------------------------
(* The program.  One call of cgminer.devs is one step: it opens a          *)
(* connection, sends 'devs', reads what the daemon answers at that moment  *)
(* and classifies every record of the answer.                              *)

\* How the socket calls of one request may end.
IOOutcomes == {"ok", "connect", "send", "recv"}

\* CGMiner.__call__ as a whole, for the answer w and the socket outcome io
Call(w, io) ==
    IF io # "ok" THEN [exc |-> "IOError", value |-> NoValue]
    ELSE JsonLoads(StripNulls(w))

\* Views leaving out the records Device refuses
ViewsSkipping(recs) ==
    LET ds == [i \in 1..Len(recs) |-> Device(recs[i])]
        good == SelectSeq([i \in 1..Len(recs) |-> i], LAMBDA i : ds[i].exc = "none")
    IN  [exc |-> "none", list |-> [k \in 1..Len(good) |-> ds[good[k]].view]]

\* [Device(dev) for dev in data[DEVS]]: the first record that fails ends it
Views(recs) ==
    LET ds == [i \in 1..Len(recs) |-> Device(recs[i])]
        bad == {i \in 1..Len(recs) : ds[i].exc # "none"}
    IN  IF bad # {} THEN [exc |-> ds[SetMin(bad)].exc, list |-> <<>>]
        ELSE [exc |-> "none", list |-> [i \in 1..Len(recs) |-> ds[i].view]]

\* the devs property
Devs(w, io) ==
    LET r == Call(w, io)
    IN  IF r.exc # "none" THEN [exc |-> r.exc, list |-> <<>>]
        ELSE IF ~r.value.hasDevs THEN [exc |-> "none", list |-> <<>>]
        ELSE Views(r.value.devs)

----------------------------------------------------------------------------
(* Text.  A line is [field, attr, value]: "<field>.<attr> <value>", or     *)
(* "<attr> <value>" when field is empty.                                   *)

Line(f, a, v) == [field |-> f, attr |-> a, value |-> v]

\* dev_type.lower()
Lower(name) ==
    CASE name = "GPU" -> "gpu"
      [] name = "PGA" -> "pga"
      [] OTHER -> name

\* '%s_%s' % (dev_type.lower(), dev.ident)
Prefix(dev) == Lower(dev.cls) \o "_" \o ToString(ident(dev))

\* '%s %s' % (dev_type, dev.ident)
Label(dev) == dev.cls \o " " \o ToString(ident(dev))

\* '%d' % x
FormatD(x) == ToString(x)

\* '%d' % (mh * 1e6), mh held in tenths
FormatHashes(mh10) == ToString(mh10 * 100000)

\* '%f' % x, x held in tenths
FormatF(x10) == ToString(x10 \div 10) \o "." \o ToString(x10 % 10) \o "00000"

\* the lines of a loop, given the lines of each of its rounds
RECURSIVE Concat(_)
Concat(ss) == IF ss = <<>> THEN <<>> ELSE Head(ss) \o Concat(Tail(ss))

\* lines 108-121
ConfigHashrateDev(dev) ==
    << Line(Prefix(dev), "label", Label(dev)),
       Line(Prefix(dev), "type", "DERIVE"),
       Line(Prefix(dev), "min", "0"),
       Line(Prefix(dev), "draw", "AREASTACK") >>

ConfigHashrate(ds) ==
    << Line("", "multigraph", "cgminer_hashrate"),
       Line("", "graph_category", "mining"),
       Line("", "graph_title", "Hashrate"),
       Line("", "graph_vlabel", "Hash/s"),
       Line("", "graph_args", "--base 1000 --lower-limit 0") >>
    \o Concat([i \in 1..Len(ds) |-> ConfigHashrateDev(ds[i])])

\* lines 123-134
ConfigUtilityDev(dev) ==
    << Line(Prefix(dev), "label", Label(dev)),
       Line(Prefix(dev), "type", "GAUGE"),
       Line(Prefix(dev), "draw", "LINE") >>

ConfigUtility(ds) ==
    << Line("", "multigraph", "cgminer_utility"),
       Line("", "graph_category", "mining"),
       Line("", "graph_title", "Utility"),
       Line("", "graph_vlabel", "Shares/Min") >>
    \o Concat([i \in 1..Len(ds) |-> ConfigUtilityDev(ds[i])])

\* lines 136-147
ConfigTemperatureDev(dev) ==
    << Line(Prefix(dev), "label", Label(dev)),
       Line(Prefix(dev), "type", "GAUGE"),
       Line(Prefix(dev), "draw", "LINE") >>

ConfigTemperature(ds) ==
    << Line("", "multigraph", "cgminer_temperature"),
       Line("", "graph_category", "mining"),
       Line("", "graph_title", "Temperature"),
       Line("", "graph_vlabel", "Degrees Celsius") >>
    \o Concat([i \in 1..Len(ds) |-> ConfigTemperatureDev(ds[i])])

\* ConfigAcceptedDev with a floor, as the hashrate group has one
ConfigAcceptedDevWithMin(dev) ==
    << Line(Prefix(dev), "label", Label(dev)),
       Line(Prefix(dev), "type", "COUNTER"),
       Line(Prefix(dev), "min", "0"),
       Line(Prefix(dev), "draw", "AREASTACK") >>

\* lines 149-160
ConfigAcceptedDev(dev) ==
    << Line(Prefix(dev), "label", Label(dev)),
       Line(Prefix(dev), "type", "COUNTER"),
       Line(Prefix(dev), "draw", "AREASTACK") >>

ConfigAccepted(ds) ==
    << Line("", "multigraph", "cgminer_accepted"),
       Line("", "graph_category", "mining"),
       Line("", "graph_title", "Accepted"),
       Line("", "graph_vlabel", "Shares") >>
    \o Concat([i \in 1..Len(ds) |-> ConfigAcceptedDev(ds[i])])

\* ConfigRejectedDev declaring the kind the hashrate group declares
ConfigRejectedDevDerive(dev) ==
    << Line(Prefix(dev), "label", Label(dev)),
       Line(Prefix(dev), "type", "DERIVE"),
       Line(Prefix(dev), "draw", "AREASTACK") >>

\* lines 162-173
ConfigRejectedDev(dev) ==
    << Line(Prefix(dev), "label", Label(dev)),
       Line(Prefix(dev), "type", "COUNTER"),
       Line(Prefix(dev), "draw", "AREASTACK") >>

ConfigRejected(ds) ==
    << Line("", "multigraph", "cgminer_rejected"),
       Line("", "graph_category", "mining"),
       Line("", "graph_title", "Rejected"),
       Line("", "graph_vlabel", "Shares") >>
    \o Concat([i \in 1..Len(ds) |-> ConfigRejectedDev(ds[i])])

\* configure's lines for the device list ds
ConfigLines(ds) ==
    ConfigHashrate(ds) \o ConfigUtility(ds) \o ConfigTemperature(ds)
    \o ConfigAccepted(ds) \o ConfigRejected(ds)

\* the value lines of fetch's five loops
FetchHashrateDev(dev) == << Line(Prefix(dev), "value", FormatHashes(dev.mh)) >>

FetchUtilityDev(dev) == << Line(Prefix(dev), "value", FormatF(dev.utility)) >>

FetchTemperatureDev(dev) == << Line(Prefix(dev), "value", FormatF(dev.temperature)) >>

FetchAcceptedDev(dev) == << Line(Prefix(dev), "value", FormatD(dev.accepted)) >>

FetchRejectedDev(dev) == << Line(Prefix(dev), "value", FormatD(dev.rejected)) >>

----------------------------------------------------------------------------
(* The daemon: what it answers a request with. *)

DeviceLists ==
    UNION {[1..n -> 1..Len(DeviceTable)] : n \in 0..MaxDevs}

\* a device list or a response without DEVS, padded with a null byte as
\* cgminer pads them; a response cut short; an empty response
DaemonAnswers ==
    {DevsText(idx) \o <<NUL>> : idx \in DeviceLists}
    \cup {NoDevsText \o <<NUL>>, <<1, 3, RecToken(1)>>, <<>>}

\* the devs property for every answer and socket outcome, computed once
DevsTable == [a \in DaemonAnswers |-> [io \in IOOutcomes |-> Devs(a, io)]]

\* sys.argv: the program's name, then the arguments
Argvs ==
    { <<"cgminer_">>,
      <<"cgminer_", "config">>,
      <<"cgminer_", "autoconf">>,
      <<"cgminer_", "config", "extra">> }

----------------------------------------------------------------------------
(* __main__, configure and fetch. *)

ProgInit ==
    /\ pc = "main"
    /\ argv \in Argvs
    /\ data = "unset"
    /\ daemon \in DaemonAnswers
    /\ changes = 0
    /\ devs = <<>>
    /\ polls = <<>>
    /\ lines = <<>>
    /\ stdout = <<>>
    /\ exc = "none"
    /\ connects = 0
    /\ commands = 0

\* SelectData looking at the first argument alone
SelectDataFirstArg(av) ==
    IF Len(av) >= 2 /\ av[2] = "config" THEN "configure" ELSE "fetch"

\* lines 227-230: the function the arguments select
SelectData(av) ==
    IF Len(av) = 2 /\ av[2] = "config" THEN "configure" ELSE "fetch"

\* lines 221-230
Main ==
    /\ pc = "main"
    /\ data' = SelectData(argv)
    /\ pc' = IF data' = "configure" THEN "configure" ELSE "fetch_hashrate"
    /\ UNCHANGED <<argv, daemon, changes, devs, polls, lines, stdout, exc,
                   connects, commands>>
    /\ UNCHANGED <<classVars, transVars>>

\* one request was made: the connection, the command, the outcome
Polled(a, io, r) ==
    /\ connects' = connects + 1
    /\ commands' = commands + (IF io \in {"ok", "recv"} THEN 1 ELSE 0)
    /\ polls' = Append(polls, [answer |-> IF io = "ok" THEN a ELSE <<>>,
                               io |-> io,
                               exc |-> r.exc, n |-> Len(r.list)])

\* an exception leaves configure or fetch, and __main__ with it
Abort(e) ==
    /\ pc' = "failed"
    /\ exc' = e

\* lines 103-175: configure(cgminer)
Configure ==
    /\ pc = "configure"
    /\ \E io \in IOOutcomes :
          LET r == DevsTable[daemon][io]
          IN  /\ Polled(daemon, io, r)
              /\ IF r.exc # "none"
                 THEN /\ Abort(r.exc)
                      /\ UNCHANGED <<devs, lines>>
                 ELSE /\ devs' = r.list
                      /\ lines' = ConfigLines(r.list)
                      /\ pc' = "print"
                      /\ UNCHANGED exc
    /\ UNCHANGED <<argv, data, daemon, changes, stdout>>
    /\ UNCHANGED <<classVars, transVars>>

\* lines 179-188: fetch's first group, over the local devs
FetchHashrate ==
    /\ pc = "fetch_hashrate"
    /\ \E io \in IOOutcomes :
          LET r == DevsTable[daemon][io]
          IN  /\ Polled(daemon, io, r)
              /\ IF r.exc # "none"
                 THEN /\ Abort(r.exc)
                      /\ UNCHANGED <<devs, lines>>
                 ELSE /\ devs' = r.list
                      /\ lines' = <<Line("", "multigraph", "cgminer_hashrate")>>
                                  \o Concat([i \in 1..Len(r.list) |-> FetchHashrateDev(r.list[i])])
                      /\ pc' = "fetch_utility"
                      /\ UNCHANGED exc
    /\ UNCHANGED <<argv, data, daemon, changes, stdout>>
    /\ UNCHANGED <<classVars, transVars>>

\* the value lines of one of fetch's later loops
FetchValues(name, ds) ==
    CASE name = "cgminer_utility" ->
             Concat([i \in 1..Len(ds) |-> FetchUtilityDev(ds[i])])
      [] name = "cgminer_temperature" ->
             Concat([i \in 1..Len(ds) |-> FetchTemperatureDev(ds[i])])
      [] name = "cgminer_accepted" ->
             Concat([i \in 1..Len(ds) |-> FetchAcceptedDev(ds[i])])
      [] name = "cgminer_rejected" ->
             Concat([i \in 1..Len(ds) |-> FetchRejectedDev(ds[i])])

\* what the daemon may answer the next request with: since the last
\* request its devices may have changed (what it would have answered to a
\* request that never reached it is left out of the state)
AnswersNow(io) ==
    IF changes < MaxChanges /\ io = "ok" THEN DaemonAnswers ELSE {daemon}

\* one of fetch's later groups: the separator, then a loop over
\* cgminer.devs, read again
FetchGroup(here, next, name) ==
    /\ pc = here
    /\ \E io \in IOOutcomes : \E a \in AnswersNow(io) :
          LET r == DevsTable[a][io]
              sep == Append(lines, Line("", "multigraph", name))
          IN  /\ daemon' = a
              /\ changes' = changes + (IF a = daemon THEN 0 ELSE 1)
              /\ Polled(a, io, r)
              /\ IF r.exc # "none"
                 THEN /\ Abort(r.exc)
                      /\ lines' = sep
                 ELSE /\ lines' = sep \o FetchValues(name, r.list)
                      /\ pc' = next
                      /\ UNCHANGED exc
    /\ UNCHANGED <<argv, data, devs, stdout>>
    /\ UNCHANGED <<classVars, transVars>>

\* lines 190-195
FetchUtility ==
    /\ pc = "fetch_utility"
    /\ FetchGroup("fetch_utility", "fetch_temperature", "cgminer_utility")

\* lines 197-202
FetchTemperature ==
    /\ pc = "fetch_temperature"
    /\ FetchGroup("fetch_temperature", "fetch_accepted", "cgminer_temperature")

\* lines 204-209
FetchAccepted ==
    /\ pc = "fetch_accepted"
    /\ FetchGroup("fetch_accepted", "fetch_rejected", "cgminer_accepted")

\* lines 211-218
FetchRejected ==
    /\ pc = "fetch_rejected"
    /\ FetchGroup("fetch_rejected", "print", "cgminer_rejected")

\* line 232: print '\n'.join(data(cgminer))
WriteOut ==
    /\ pc = "print"
    /\ stdout' = lines
    /\ pc' = "done"
    /\ UNCHANGED <<argv, data, daemon, changes, devs, polls, lines, exc,
                   connects, commands>>
    /\ UNCHANGED <<classVars, transVars>>

----------------------------------------------------------------------------
(* The specifications. *)

ClassIdle ==
    /\ cpc = "off"
    /\ record = <<>>
    /\ made = NoMade
    /\ identRead = -1

TransIdle ==
    /\ tpc = "off"
    /\ sock = "none"
    /\ wire = <<>>
    /\ delivered = 0
    /\ peerClosed = FALSE
    /\ cmd = [command |-> "unset"]
    /\ request = <<>>
    /\ buff = <<>>
    /\ chunk = <<>>
    /\ consumed = 0
    /\ recvs = 0
    /\ ret = NoRet

ProgIdle ==
    /\ pc = "off"
    /\ argv = <<>>
    /\ data = "unset"
    /\ daemon = <<>>
    /\ changes = 0
    /\ devs = <<>>
    /\ polls = <<>>
    /\ lines = <<>>
    /\ stdout = <<>>
    /\ exc = "none"
    /\ connects = 0
    /\ commands = 0

\* one invocation of the plugin
Init == ProgInit /\ ClassIdle /\ TransIdle

Next ==
    \/ Main
    \/ Configure
    \/ FetchHashrate
    \/ FetchUtility
    \/ FetchTemperature
    \/ FetchAccepted
    \/ FetchRejected
    \/ WriteOut

Spec == Init /\ [][Next]_vars

\* one call of CGMiner.__call__
TransportInit ==
    /\ TransInit
    /\ wire \in TransportWires
    /\ ClassIdle
    /\ ProgIdle

TransportNext ==
    \/ ClientStep
    \/ PeerStep

TransportSpec == TransportInit /\ [][TransportNext]_vars

\* the client is one sequential thread: it takes its next step whenever it
\* has one
FairTransportSpec == TransportSpec /\ WF_vars(ClientStep)

\* one call of Device(record)
ClassifyInit ==
    /\ ClassInit
    /\ record \in RecordInputs
    /\ TransIdle
    /\ ProgIdle

ClassifyNext ==
    \/ Classify
    \/ ReadIdent

ClassifySpec == ClassifyInit /\ [][ClassifyNext]_vars

----------------------------------------------------------------------------
(* The classifier's claims (ClassifySpec). *)

\* the positions of the record's keys that name a registered device type
TagPositions(rec) == {i \in 1..Len(rec) : rec[i][1] \in {"GPU", "PGA"}}

CompleteStats(rec) == \A i \in 1..Len(StatFields) : HasKey(rec, StatFields[i])

\* C3, as stated: a record with no registered type tag, or with more than
\* one, is refused: Device(record) raises and returns no view.
C3_ZeroOrManyTagsFail ==
    (cpc # "input" /\ Cardinality(TagPositions(record)) # 1)
        => (made.exc # "none" /\ made.view = NoView)

\* C3, amended: a record with no registered type tag is refused with
\* TypeError and no view.  A record with more than one is not refused for
\* that: with all stat fields present it becomes a view of the class named
\* by the first registered tag in the record's key order (and with a stat
\* field missing it raises KeyError, like any other record).
C3_ZeroTagsFailManyTakeFirst ==
    cpc # "input" =>
        /\ TagPositions(record) = {}
               => (made.exc = "TypeError" /\ made.view = NoView)
        /\ (Cardinality(TagPositions(record)) > 1 /\ CompleteStats(record))
               => /\ made.exc = "none"
                  /\ \E i \in TagPositions(record) :
                        /\ made.view.cls = record[i][1]
                        /\ \A j \in TagPositions(record) : i <= j
        /\ (Cardinality(TagPositions(record)) > 1 /\ ~CompleteStats(record))
               => (made.exc = "KeyError" /\ made.view = NoView)

\* a record with both registered tags, PGA first, became a PGA view
C3_Witness ==
    /\ cpc = "read"
    /\ Cardinality(TagPositions(record)) = 2
    /\ made.exc = "none"
    /\ made.view.cls = "PGA"
    /\ HasKey(record, "GPU")

\* C4, as stated: for every registered tag key the record holds, with all
\* stat fields present, the view's class is that key and its ident the
\* value under that key, whatever the other keys and the key order.
C4_ViewOfEveryTagKey ==
    \A k \in {"GPU", "PGA"} :
        (cpc # "input" /\ HasKey(record, k) /\ CompleteStats(record))
            => /\ made.exc = "none"
               /\ made.view.cls = k
               /\ cpc = "read" => <<k, identRead>> \in Range(record)

\* C4, amended: for every record that holds exactly one registered tag key
\* and all stat fields, the view's class is that key and its ident the
\* value under that key, whatever the unregistered keys and the key order.
C4_ViewOfTheOnlyTagKey ==
    \A k \in {"GPU", "PGA"} :
        (/\ cpc # "input"
         /\ HasKey(record, k)
         /\ Cardinality(TagPositions(record)) = 1
         /\ CompleteStats(record))
            => /\ made.exc = "none"
               /\ made.view.cls = k
               /\ cpc = "read" => <<k, identRead>> \in Range(record)

\* a record whose only registered tag is neither its first key nor its
\* only tag-like key was classified and its ident read
C4_Witness ==
    /\ cpc = "read"
    /\ Cardinality(TagPositions(record)) = 1
    /\ record[1][1] = "ASC"
    /\ made.view.cls = "PGA"
    /\ identRead = 1

----------------------------------------------------------------------------
(* The transport's claims (TransportSpec, FairTransportSpec). *)

CallEnded == tpc \in {"returned", "raised"}

\* C2: once a call of __call__ has ended, by return or by exception, the
\* socket it opened is closed.
C2_SocketClosedAfterCall == CallEnded => sock = "closed"

\* w without its null bytes
NonNulls(w) == SelectSeq(w, LAMBDA b : b # 0)

\* recv hands out the peer's bytes in order, so the chunks received so far
\* are, end to end, the first `consumed` bytes of the wire
Received == [i \in 1..consumed |-> wire[i]]

\* the read loop's state: buff is every chunk received but the one in hand;
\* the loop is left, and the parser reached, only after a zero-length read
\* that follows the peer's close, with every byte of the response received;
\* what the parser is given is all of it without its null bytes, and the
\* call ends as the one-step Call of the program's model does
C10_Buffer ==
    /\ tpc = "recv" => buff = Received
    /\ tpc = "test" => buff \o chunk = Received
    /\ tpc = "parse"
          => /\ peerClosed /\ chunk = <<>> /\ recvs >= 1
             /\ consumed = Len(wire)
             /\ buff = wire
    /\ (tpc = "returned" \/ (tpc = "raised" /\ ret.exc = "ValueError"))
          => /\ peerClosed /\ chunk = <<>> /\ recvs >= 1
             /\ consumed = Len(wire)
             /\ buff = NonNulls(wire)
             /\ ret = Call(wire, "ok")

\* C10: the read loop keeps receiving until a zero-length read and does not
\* return before it; once the peer has closed, the call ends; the parser is
\* given the chunks received, in order, without any null byte.
C10_ReadUntilClose == [] C10_Buffer /\ (peerClosed ~> CallEnded)

\* a response with a null byte inside it, read in three chunks or more,
\* was parsed into a device list
C10_Witness ==
    /\ tpc = "returned"
    /\ recvs >= 4
    /\ ret.value.hasDevs
    /\ Len(ret.value.devs) >= 1
    /\ \E i \in 1..(Len(wire) - 1) : wire[i] = 0 /\ wire[i + 1] # 0

----------------------------------------------------------------------------
(* The program's claims (Spec). *)

GroupNames ==
    <<"cgminer_hashrate", "cgminer_utility", "cgminer_temperature",
      "cgminer_accepted", "cgminer_rejected">>

Groups == 1..Len(GroupNames)

IsSep(l) == l.field = "" /\ l.attr = "multigraph"

\* the groups named by the separator lines of ls, in order
SepNames(ls) ==
    LET seps == SelectSeq(ls, IsSep)
    IN  [k \in 1..Len(seps) |-> seps[k].value]

\* the lines of group g: those after its separator, up to the next one
Section(ls, g) ==
    LET seps  == {i \in 1..Len(ls) : IsSep(ls[i])}
        start == CHOOSE i \in seps : ls[i].value = GroupNames[g]
        later == {j \in seps : j > start}
        end   == IF later = {} THEN Len(ls) ELSE SetMin(later) - 1
    IN  [k \in 1..(end - start) |-> ls[start + k]]

\* the per-device lines of a section, and those with attribute a
DeviceLines(sec) == SelectSeq(sec, LAMBDA l : l.field # "")

AttrLines(sec, a) == SelectSeq(sec, LAMBDA l : l.field # "" /\ l.attr = a)

\* the group-level lines of a section all come before its per-device lines
GraphLinesFirst(sec) ==
    \A i, j \in 1..Len(sec) : (i < j /\ sec[j].field = "") => sec[i].field = ""

\* the field identifiers of a section, one per device, in order
DevIds(sec) ==
    LET ls == SelectSeq(sec, LAMBDA l : l.attr \in {"label", "value"})
    IN  [k \in 1..Len(ls) |-> ls[k].field]

\* C1: an invocation makes exactly one request: one connection, one 'devs'
\* command, one response, in Config mode and in Fetch mode.
C1_OneRequestPerInvocation ==
    /\ connects <= 1
    /\ commands <= 1
    /\ pc = "done" => (connects = 1 /\ commands = 1 /\ Len(polls) = 1)

\* C5: in the output of an invocation all five groups name the same
\* devices, in the same order, also when the daemon's device list changes
\* while the invocation runs.
C5_SameDevicesInEveryGroup ==
    pc = "done" =>
        \A g \in Groups :
            DevIds(Section(stdout, g)) = DevIds(Section(stdout, 1))

\* the number of per-device lines the code gives each device in Config
\* mode, group by group
DeclsPerDevice == <<4, 3, 3, 3, 3>>

\* the output has the five separators, once each and in order, and in every
\* group n[g] devices with per[g] lines each, after the group's own lines
GroupSizes(n, per) ==
    /\ SepNames(stdout) = GroupNames
    /\ \A g \in Groups :
          /\ GraphLinesFirst(Section(stdout, g))
          /\ Len(DeviceLines(Section(stdout, g))) = n[g] * per[g]

\* C6, as stated: for a list of N views every Config group is one separator
\* and N*4 per-device lines, every Fetch group one separator and N value
\* lines (N being, for a Fetch group, the length of the list it was
\* rendered from).
C6_FourLinesPerDevice ==
    /\ (pc = "done" /\ data = "configure")
          => GroupSizes([g \in Groups |-> polls[1].n], [g \in Groups |-> 4])
    /\ (pc = "done" /\ data = "fetch")
          => /\ GroupSizes([g \in Groups |-> polls[g].n], [g \in Groups |-> 1])
             /\ \A g \in Groups :
                   Len(Section(stdout, g)) = polls[g].n

\* C6, amended: for a list of N views, Config mode gives every group one
\* separator, the group's graph_ lines and then its per-device lines: N*4
\* in the hashrate group and N*3 in each of the other four.  Fetch mode
\* gives every group one separator followed by exactly one value line for
\* each view of the list that group was rendered from.
C6_LinesPerDevice ==
    /\ (pc = "done" /\ data = "configure")
          => GroupSizes([g \in Groups |-> polls[1].n], DeclsPerDevice)
    /\ (pc = "done" /\ data = "fetch")
          => /\ GroupSizes([g \in Groups |-> polls[g].n], [g \in Groups |-> 1])
             /\ \A g \in Groups :
                   Len(Section(stdout, g)) = polls[g].n

\* Config mode printed the groups of two devices
C6_Witness ==
    /\ pc = "done"
    /\ data = "configure"
    /\ polls[1].n = 2
    /\ Len(stdout) = 53

\* in group g of the Config output every device declares kind kinds[g], and
\* a floor of zero exactly in the groups of floors
Declared(kinds, floors) ==
    \A g \in Groups :
        LET sec == Section(stdout, g)
        IN  /\ Len(AttrLines(sec, "type")) = polls[1].n
            /\ \A i \in 1..Len(sec) :
                  (sec[i].field # "" /\ sec[i].attr = "type")
                      => sec[i].value = kinds[g]
            /\ Len(AttrLines(sec, "min")) = IF g \in floors THEN polls[1].n ELSE 0
            /\ \A i \in 1..Len(sec) :
                  (sec[i].field # "" /\ sec[i].attr = "min")
                      => sec[i].value = "0"

\* C7, as stated: the kind is DERIVE in the hashrate, accepted and rejected
\* groups and GAUGE in the utility and temperature groups; the hashrate,
\* accepted and rejected groups declare a floor of zero for every device.
C7_DeriveWithFloor ==
    (pc = "done" /\ data = "configure")
        => Declared(<<"DERIVE", "GAUGE", "GAUGE", "DERIVE", "DERIVE">>, {1, 4, 5})

\* C7, amended: the kind is DERIVE in the hashrate group, GAUGE in the
\* utility and temperature groups and COUNTER in the accepted and rejected
\* groups; only the hashrate group declares a floor of zero, for every
\* device.
C7_KindsAndFloor ==
    (pc = "done" /\ data = "configure")
        => Declared(<<"DERIVE", "GAUGE", "GAUGE", "COUNTER", "COUNTER">>, {1})

\* Config mode printed the declarations of a GPU and a PGA
C7_Witness ==
    /\ pc = "done"
    /\ data = "configure"
    /\ DevIds(Section(stdout, 5)) = <<"gpu_0", "pga_1">>

NoArguments == Len(argv) = 1

OnlyConfig == Len(argv) = 2 /\ argv[2] = "config"

\* C8, as stated: no argument selects Fetch mode, the one argument 'config'
\* Config mode; anything else is a usage error: no request is sent and
\* nothing is rendered.
C8_OtherArgumentsRefused ==
    pc # "main" =>
        /\ NoArguments => data = "fetch"
        /\ OnlyConfig => data = "configure"
        /\ (~NoArguments /\ ~OnlyConfig)
              => (pc = "failed" /\ connects = 0 /\ lines = <<>> /\ stdout = <<>>)

\* C8, amended: no argument selects Fetch mode, the one argument 'config'
\* Config mode; every other argument combination selects Fetch mode too:
\* the daemon is asked and values, not declarations, are written.
C8_OtherArgumentsFetch ==
    pc # "main" =>
        /\ NoArguments => data = "fetch"
        /\ OnlyConfig => data = "configure"
        /\ (~NoArguments /\ ~OnlyConfig) => data = "fetch"
        /\ (pc = "done" /\ data = "fetch")
              => /\ connects >= 1
                 /\ SepNames(stdout) = GroupNames
                 /\ \A i \in 1..Len(stdout) :
                       stdout[i].field # "" => stdout[i].attr = "value"
        /\ (pc = "done" /\ data = "configure")
              => /\ connects >= 1
                 /\ SepNames(stdout) = GroupNames
                 /\ \A i \in 1..Len(stdout) :
                       stdout[i].field # "" => stdout[i].attr # "value"

\* 'config' followed by another argument ran Fetch mode to its end
C8_Witness ==
    /\ Len(argv) = 3
    /\ argv[2] = "config"
    /\ pc = "done"
    /\ SepNames(stdout) = GroupNames
    /\ \E i \in 1..Len(stdout) : stdout[i].attr = "value"

\* the record has a registered type tag and every stat field
Sound(rec) ==
    /\ \E i \in 1..Len(rec) : rec[i][1] \in {"GPU", "PGA"}
    /\ \A i \in 1..Len(StatFields) : \E j \in 1..Len(rec) : rec[j][1] = StatFields[i]

\* the device-record tokens of an answer
RecTokens(a) == SelectSeq(a, IsRecToken)

\* the answers that cannot be rendered: no JSON document once the null
\* bytes are taken out, or one with a record that is not sound
FaultyAnswers ==
    {a \in DaemonAnswers :
        \/ ~IsDoc(NonNulls(a))
        \/ \E i \in 1..Len(RecTokens(a)) : ~Sound(DeviceTable[RecTokens(a)[i] - 9])}

\* a request that must fail: a socket error or a faulty answer
Faulty(p) == p.io # "ok" \/ p.answer \in FaultyAnswers

\* C9: when a step of an invocation fails (socket error, malformed or empty
\* response, a record with no registered tag or with a field missing) the
\* invocation ends with an error and nothing is written to standard
\* output; no record is skipped and no partial set of groups is printed.
C9_FailureWritesNothing ==
    /\ \A k \in 1..Len(polls) :
          IF Faulty(polls[k])
          THEN pc = "failed" /\ exc # "none" /\ polls[k].exc = exc
          ELSE polls[k].exc = "none"
               /\ polls[k].n = Len(RecTokens(polls[k].answer))
    /\ (exc # "none" \/ pc = "failed")
          => (pc = "failed" /\ exc # "none" /\ stdout = <<>>)
    /\ stdout # <<>> => (pc = "done" /\ SepNames(stdout) = GroupNames)

\* Fetch mode failed at its third request, on a record with a field
\* missing, with two groups rendered and nothing written
C9_Witness ==
    /\ pc = "failed"
    /\ exc = "KeyError"
    /\ Len(polls) = 3
    /\ Len(lines) >= 4
    /\ stdout = <<>>

====
